---- MODULE Spec2Model ----
(***************************************************************************)
(* OAuth 1.0a request signing (karno/oauthsign).                           *)
(*                                                                         *)
(* Strings are sequences of bytes (0..255), so that percent-encoding,      *)
(* ASCII upper-casing, base64 and the byte-wise ordering used by `sort`    *)
(* are computed as the code computes them.  Option<T> is a sequence of     *)
(* length 0 (None) or 1 (Some).  io::Result<T> is a record of two options. *)
(* HMAC-SHA1 is a symbolic, injective function of (key, message).          *)
(***************************************************************************)
EXTENDS Integers, Sequences, FiniteSets, TLC

\* ------------------------------------------------------------------ bounds

\* Largest number of user parameters collected by a builder.
MaxParams == 2

\* ------------------------------------------------------- Option / Result

None == <<>>
Some(x) == <<x>>
IsSome(o) == Len(o) = 1
IsNone(o) == Len(o) = 0
unwrap_or(o, d) == IF IsSome(o) THEN o[1] ELSE d

Ok(v) == [ok |-> <<v>>, err |-> <<>>]
Err(e) == [ok |-> <<>>, err |-> <<e>>]
IsOk(r) == Len(r.ok) = 1
IsErr(r) == Len(r.err) = 1

\* --------------------------------------------------------- string layer

\* percent_encoding::NON_ALPHANUMERIC
NON_ALPHANUMERIC(b) ==
    ~ ( (b >= 48 /\ b <= 57) \/ (b >= 65 /\ b <= 90) \/ (b >= 97 /\ b <= 122) )

\* The bytes that are escaped: NON_ALPHANUMERIC without '-' '.' '_' '~'.
TARGETS_FOR_PARAMS(b) == NON_ALPHANUMERIC(b) /\ b \notin {45, 46, 95, 126}

\* Lower-case hexadecimal digits.
HexDigit_lowercase(d) == IF d < 10 THEN 48 + d ELSE 87 + d

\* Upper-case hexadecimal digit of d in 0..15.
HexDigit(d) == IF d < 10 THEN 48 + d ELSE 55 + d

\* One byte of utf8_percent_encode: itself, or '%' and two hex digits.
EncodeByte(b) ==
    IF TARGETS_FOR_PARAMS(b)
    THEN <<37, HexDigit(b \div 16), HexDigit(b % 16)>>
    ELSE <<b>>

\* utf8_percent_encode(input, TARGETS_FOR_PARAMS): the bytes' encodings, in order
\* (the input is split in halves to keep the evaluation shallow).
RECURSIVE percent_encode(_)
percent_encode(input) ==
    IF Len(input) = 0 THEN <<>>
    ELSE IF Len(input) = 1 THEN EncodeByte(input[1])
    ELSE LET h == Len(input) \div 2
         IN  percent_encode(SubSeq(input, 1, h)) \o percent_encode(SubSeq(input, h + 1, Len(input)))

percent_encode_cow(input) == percent_encode(input)

percent_encode_str(input) == percent_encode(input)

\* The text taken in the case it came in.
to_ascii_uppercase_kept(s) == s

\* str::to_ascii_uppercase: only a-z change.
to_ascii_uppercase(s) ==
    [i \in 1..Len(s) |-> IF s[i] >= 97 /\ s[i] <= 122 THEN s[i] - 32 ELSE s[i]]

RECURSIVE NatToString(_)
NatToString(n) ==
    IF n < 10 THEN <<48 + n>>
    ELSE NatToString(n \div 10) \o <<48 + (n % 10)>>

\* i64::to_string / format!("{}", n)
i64_to_string(n) == IF n < 0 THEN <<45>> \o NatToString(-n) ELSE NatToString(n)

\* f64::to_string for the values  sign * (whole + tenths/10):
\* the shortest decimal form, without ".0" for an integral value.
f64_to_string(x) ==
    (IF x.neg THEN <<45>> ELSE <<>>)
    \o NatToString(x.whole)
    \o (IF x.tenths = 0 THEN <<>> ELSE <<46, 48 + x.tenths>>)

\* The standard base64 alphabet.
B64Char(i) ==
    IF i < 26 THEN 65 + i
    ELSE IF i < 52 THEN 71 + i
    ELSE IF i < 62 THEN i - 4
    ELSE IF i = 62 THEN 43 ELSE 47

\* base64::encode: standard alphabet, '=' padding.
RECURSIVE base64_encode(_)
base64_encode(b) ==
    IF Len(b) = 0 THEN <<>>
    ELSE IF Len(b) = 1 THEN
        <<B64Char(b[1] \div 4), B64Char((b[1] % 4) * 16), 61, 61>>
    ELSE IF Len(b) = 2 THEN
        <<B64Char(b[1] \div 4), B64Char((b[1] % 4) * 16 + (b[2] \div 16)),
          B64Char((b[2] % 16) * 4), 61>>
    ELSE
        <<B64Char(b[1] \div 4), B64Char((b[1] % 4) * 16 + (b[2] \div 16)),
          B64Char((b[2] % 16) * 4 + (b[3] \div 64)), B64Char(b[3] % 64)>>
        \o base64_encode(SubSeq(b, 4, Len(b)))

\* Ord for str: byte-wise lexicographic, a < b.
\* At the first position i where they differ, a has ended or has the smaller byte.
StrLess(a, b) ==
    \E i \in 1..Len(b) :
        /\ i <= Len(a) + 1
        /\ \A j \in 1..(i - 1) : a[j] = b[j]
        /\ (i = Len(a) + 1 \/ a[i] < b[i])

\* Ord for (Cow<str>, Cow<str>): first component, then second; p <= q.
PairLeq(p, q) ==
    \/ StrLess(p[1], q[1])
    \/ p[1] = q[1] /\ ~ StrLess(q[2], p[2])

RECURSIVE Insert(_, _)
Insert(p, sorted) ==
    IF sorted = <<>> THEN <<p>>
    ELSE IF PairLeq(p, Head(sorted)) THEN <<p>> \o sorted
    ELSE <<Head(sorted)>> \o Insert(p, Tail(sorted))

\* sort left out: the vector as it was joined.
sort_omitted(v) == v

\* Vec::sort on a vector of pairs.
RECURSIVE sort(_)
sort(v) == IF v = <<>> THEN <<>> ELSE Insert(Head(v), sort(Tail(v)))

\* slice::join(sep) on a sequence of strings.
RECURSIVE join(_, _)
join(strs, sep) ==
    IF strs = <<>> THEN <<>>
    ELSE IF Len(strs) = 1 THEN strs[1]
    ELSE strs[1] \o sep \o join(Tail(strs), sep)

\* --------------------------------------------------- v1/values.rs

OAUTH_VALUE_VERSION == <<49, 46, 48>>                        \* "1.0"
OAUTH_VALUE_SIGMETHOD_HMACSHA1 == <<72, 77, 65, 67, 45, 83, 72, 65, 49>>   \* "HMAC-SHA1"
OAUTH_VALUE_SIGMETHOD_PLAINTEXT == <<80, 76, 65, 73, 78, 84, 69, 88, 84>>  \* "PLAINTEXT"

SignatureMethod == {"PlainText", "HmacSha1"}

\* impl Into<&'static str> for SignatureMethod
SignatureMethodInto(m) ==
    IF m = "PlainText" THEN OAUTH_VALUE_SIGMETHOD_PLAINTEXT
    ELSE OAUTH_VALUE_SIGMETHOD_HMACSHA1

\* enum OAuthVersion { None, Default, Custom(s) }
OAuthVersionNone == [kind |-> "None", s |-> <<>>]
OAuthVersionDefault == [kind |-> "Default", s |-> <<>>]
OAuthVersionCustom(str) == [kind |-> "Custom", s |-> str]

\* OAuthVersion::None taken for the default version.
OAuthVersionInto_none_as_default(v) ==
    IF v.kind = "Custom" THEN Some(v.s) ELSE Some(OAUTH_VALUE_VERSION)

\* impl Into<Option<Cow<str>>> for OAuthVersion
OAuthVersionInto(v) ==
    IF v.kind = "None" THEN None
    ELSE IF v.kind = "Default" THEN Some(OAUTH_VALUE_VERSION)
    ELSE Some(v.s)

\* --------------------------------------------------- parameters.rs

\* enum OAuthParameter: one record shape for the six variants.
\* An f64 is  sign * (whole + tenths/10).
NoFloat == [neg |-> FALSE, whole |-> 0, tenths |-> 0]
StringValue(str) == [kind |-> "StringValue", s |-> str, n |-> 0, f |-> NoFloat, b |-> <<>>]
IntValue(i) == [kind |-> "IntValue", s |-> <<>>, n |-> i, f |-> NoFloat, b |-> <<>>]
FloatValue(x) == [kind |-> "FloatValue", s |-> <<>>, n |-> 0, f |-> x, b |-> <<>>]
FileValue(path) == [kind |-> "FileValue", s |-> path, n |-> 0, f |-> NoFloat, b |-> <<>>]
ByteValue(bytes) == [kind |-> "ByteValue", s |-> <<>>, n |-> 0, f |-> NoFloat, b |-> bytes]
NamedByteValue(name, bytes) ==
    [kind |-> "NamedByteValue", s |-> name, n |-> 0, f |-> NoFloat, b |-> bytes]

from_file(path) == FileValue(path)
from_bytes(name, bytes) == NamedByteValue(name, bytes)

\* --------------------------------------------------- state

VARIABLES
    fs,          \* the file system: path -> io::Result<bytes>
    pc,          \* "building" until builder.rs sign consumed the builder, then "signed"
    signer,      \* builder.rs oauth_signer: the Signer of v1/signer.rs
    parameters,  \* builder.rs parameters: Vec<(key, OAuthParameter)>
    secrets,     \* the Secrets handed to sign: Option of the record
    result,      \* Option<io::Result<SignedContent>> returned by sign
    v1,          \* the OAuthSignBuilder of v1.rs
    v1_adds,     \* how many add_param / add_param_encoded calls v1 has had
    v1_call,     \* the sign call of v1 that is returning: Option of its arguments and result
    v1_signed,   \* whether a sign method of v1 has been invoked
    util,        \* a call of a function of util.rs or of the encoder: its argument and result
    hmac         \* a HMAC-SHA1 computation of the hmac and sha1 crates, step by step

bvars == <<fs, pc, signer, parameters, secrets, result>>
v1vars == <<v1, v1_adds, v1_call, v1_signed>>
uvars == <<util>>
vars == <<fs, pc, signer, parameters, secrets, result, v1, v1_adds, v1_call, v1_signed, util, hmac>>

\* --------------------------------------------------- v1/signer.rs

OAUTH_PARAM_KEY_CONSUMER_KEY ==
    <<111, 97, 117, 116, 104, 95, 99, 111, 110, 115, 117, 109, 101, 114, 95, 107, 101, 121>>
OAUTH_PARAM_KEY_NONCE == <<111, 97, 117, 116, 104, 95, 110, 111, 110, 99, 101>>
OAUTH_PARAM_KEY_SIGNATURE_METHOD ==
    <<111, 97, 117, 116, 104, 95, 115, 105, 103, 110, 97, 116, 117, 114, 101, 95,
      109, 101, 116, 104, 111, 100>>
OAUTH_PARAM_KEY_TIMESTAMP ==
    <<111, 97, 117, 116, 104, 95, 116, 105, 109, 101, 115, 116, 97, 109, 112>>
\* signer.rs:26 gives the token key the text "oauth_nonce".
OAUTH_PARAM_KEY_TOKEN == <<111, 97, 117, 116, 104, 95, 110, 111, 110, 99, 101>>
OAUTH_PARAM_KEY_VERSION == <<111, 97, 117, 116, 104, 95, 118, 101, 114, 115, 105, 111, 110>>
\* The literal "realm" of the base-string filter.
REALM == <<114, 101, 97, 108, 109>>

\* enum EncodedParameter { StringValue(s), FileValue(name, io::Result<String>) }
EncodedStringValue(str) == [kind |-> "StringValue", s |-> str, r |-> Ok(<<>>)]
EncodedFileValue(name, res) == [kind |-> "FileValue", s |-> name, r |-> res]

\* File::open + read_to_end, then base64: the io::Error is the one of the OS.
read_file_as_encoded_bytes(path) ==
    IF IsOk(fs[path]) THEN Ok(base64_encode(fs[path].ok[1]))
    ELSE Err(fs[path].err[1])

RECURSIVE LastSlash(_)
\* Index of the last '/' of p, 0 if there is none.
LastSlash(p) ==
    IF p = <<>> THEN 0
    ELSE IF p[Len(p)] = 47 THEN Len(p)
    ELSE LastSlash(SubSeq(p, 1, Len(p) - 1))

\* Path::file_name().and_then(to_str).unwrap_or(""): the last component;
\* None for a path that ends in "..", for "/" and for "".
RECURSIVE file_name(_)
file_name(path) ==
    IF path = <<>> THEN <<>>
    ELSE IF path[Len(path)] = 47 THEN file_name(SubSeq(path, 1, Len(path) - 1))
    ELSE LET base == SubSeq(path, LastSlash(path) + 1, Len(path))
         IN  IF base = <<46, 46>> THEN <<>> ELSE base

\* impl From<OAuthParameter> for EncodedParameter
EncodedParameterFrom(p) ==
    IF p.kind = "StringValue" THEN EncodedStringValue(percent_encode_cow(p.s))
    ELSE IF p.kind = "IntValue" THEN EncodedStringValue(percent_encode_cow(i64_to_string(p.n)))
    ELSE IF p.kind = "FloatValue" THEN EncodedStringValue(percent_encode_cow(f64_to_string(p.f)))
    ELSE IF p.kind = "ByteValue" THEN EncodedStringValue(percent_encode_cow(base64_encode(p.b)))
    ELSE IF p.kind = "NamedByteValue" THEN
        EncodedFileValue(percent_encode_cow(p.s), Ok(percent_encode_str(base64_encode(p.b))))
    ELSE
        EncodedFileValue(percent_encode_cow(file_name(p.s)), read_file_as_encoded_bytes(p.s))

\* TODO-stub of the source: the content, without the key.
format_multipart_content(key, content) == content

\* get_str with a failed read taken for empty content.
get_str_swallowing(e) ==
    IF e.kind = "StringValue" THEN Ok(e.s)
    ELSE Ok(format_multipart_content(e.s, unwrap_or(e.r.ok, <<>>)))

\* EncodedParameter::get_str
get_str(e) ==
    IF e.kind = "StringValue" THEN Ok(e.s)
    ELSE IF IsOk(e.r) THEN Ok(format_multipart_content(e.s, e.r.ok[1]))
    ELSE e.r

\* The collection reporting the last error in order instead of the first.
RECURSIVE user_params_encoded_last_error(_)
user_params_encoded_last_error(params) ==
    IF params = <<>> THEN Ok(<<>>)
    ELSE LET v == get_str(EncodedParameterFrom(Head(params)[2]))
             rest == user_params_encoded_last_error(Tail(params))
         IN  IF IsErr(rest) THEN rest
             ELSE IF IsErr(v) THEN v
             ELSE Ok(<<<<Head(params)[1], v.ok[1]>>>> \o rest.ok[1])

\* parameters.into_iter().map(|(k, v)| EncodedParameter::from(v).get_str().map(|v| (k, v)))
\*     .collect::<io::Result<Vec<_>>>(): the first error in order, else all pairs.
RECURSIVE user_params_encoded(_)
user_params_encoded(params) ==
    IF params = <<>> THEN Ok(<<>>)
    ELSE LET v == get_str(EncodedParameterFrom(Head(params)[2]))
         IN  IF IsErr(v) THEN v
             ELSE LET rest == user_params_encoded(Tail(params))
                  IN  IF IsErr(rest) THEN rest
                      ELSE Ok(<<<<Head(params)[1], v.ok[1]>>>> \o rest.ok[1])

\* filter_map(|(k, v)| v.map(|v| (k, percent_encode_cow(v)))): drop the None values.
RECURSIVE trim_none(_)
trim_none(params) ==
    IF params = <<>> THEN <<>>
    ELSE (IF IsSome(Head(params)[2])
          THEN <<<<Head(params)[1], percent_encode_cow(Head(params)[2][1])>>>>
          ELSE <<>>)
         \o trim_none(Tail(params))

build_basic_params(consumer_key, token, signature_method, nonce, timestamp, version) ==
    trim_none(<<
        <<OAUTH_PARAM_KEY_TIMESTAMP, Some(i64_to_string(timestamp))>>,
        <<OAUTH_PARAM_KEY_CONSUMER_KEY, Some(consumer_key)>>,
        <<OAUTH_PARAM_KEY_SIGNATURE_METHOD, Some(SignatureMethodInto(signature_method))>>,
        <<OAUTH_PARAM_KEY_NONCE, Some(nonce)>>,
        <<OAUTH_PARAM_KEY_VERSION, version>>,
        <<OAUTH_PARAM_KEY_TOKEN, token>> >>)

\* A signature is a String: `text` is its literal text; a base64 HMAC-SHA1
\* digest is the symbol `mac` = Some([key, msg]), equal exactly for equal key and message.
PlainSignature(text) == [text |-> text, mac |-> None]
HmacSha1Base64(key, msg) == [text |-> <<>>, mac |-> Some([key |-> key, msg |-> msg])]

generate_signature_plaintext(consumer_secret, token_secret) ==
    PlainSignature(consumer_secret \o <<38>> \o unwrap_or(token_secret, <<>>))

\* The filter left out: realm is signed like any other pair.
filter_realm_omitted(pairs) == pairs

\* .filter(|(k, _)| k != "realm")
RECURSIVE filter_realm(_)
filter_realm(pairs) ==
    IF pairs = <<>> THEN <<>>
    ELSE (IF Head(pairs)[1] # REALM THEN <<Head(pairs)>> ELSE <<>>)
         \o filter_realm(Tail(pairs))

\* .map(|(k, v)| format!("{}={}", k, v)).collect::<Vec<String>>().join("&")
param_str(encoded_params) ==
    LET kept == filter_realm(encoded_params)
    IN  join([i \in 1..Len(kept) |-> kept[i][1] \o <<61>> \o kept[i][2]], <<38>>)

\* The base string with the parameter string not encoded a second time.
base_str_encoded_once(http_method, endpoint, encoded_params) ==
    percent_encode(to_ascii_uppercase(http_method))
    \o <<38>> \o percent_encode(endpoint)
    \o <<38>> \o param_str(encoded_params)

\* format!("{}&{}&{}", http_method, endpoint, params), each percent-encoded.
base_str(http_method, endpoint, encoded_params) ==
    percent_encode(to_ascii_uppercase(http_method))
    \o <<38>> \o percent_encode(endpoint)
    \o <<38>> \o percent_encode(param_str(encoded_params))

\* The key from the secrets as given, not percent-encoded.
sign_key_unencoded(consumer_secret, token_secret) ==
    consumer_secret \o <<38>> \o unwrap_or(token_secret, <<>>)

\* format!("{}&{}", consumer_secret, token_secret), each percent-encoded.
sign_key(consumer_secret, token_secret) ==
    percent_encode(consumer_secret) \o <<38>> \o percent_encode(unwrap_or(token_secret, <<>>))

generate_signature_hmacsha1(consumer_secret, token_secret, http_method, endpoint, encoded_params) ==
    HmacSha1Base64(sign_key(consumer_secret, token_secret),
                   base_str(http_method, endpoint, encoded_params))

SignedContent(signature, nonce, payload, timestamp) ==
    [signature |-> signature, nonce |-> nonce, payload |-> payload, timestamp |-> timestamp]

\* The SignedContent packaged with the clock's answer, whatever timestamp was signed.
sign_oauthv1_returning_clock(endpoint, http_method, consumer_key_and_secret, token_and_secret, signature_method, nonce, version, timestamp, params, now, uuid) ==
    LET c_key == consumer_key_and_secret[1]
        c_secret == consumer_key_and_secret[2]
        token == IF IsSome(token_and_secret) THEN Some(token_and_secret[1][1]) ELSE None
        token_secret == IF IsSome(token_and_secret) THEN Some(token_and_secret[1][2]) ELSE None
        ts == unwrap_or(timestamp, now)
        nc == unwrap_or(nonce, uuid)
        basic_params_encoded ==
            build_basic_params(c_key, token, signature_method, nc, ts, OAuthVersionInto(version))
        user == user_params_encoded(params)
    IN  IF IsErr(user) THEN user
        ELSE LET payload == sort(basic_params_encoded \o user.ok[1])
                 signature ==
                     IF signature_method = "PlainText"
                     THEN generate_signature_plaintext(c_secret, token_secret)
                     ELSE generate_signature_hmacsha1(c_secret, token_secret,
                                                      http_method, endpoint, payload)
             IN  Ok(SignedContent(signature, nc, payload, now))

\* The nonce generated in every call, the one of the Signer ignored.
sign_oauthv1_fresh_nonce(endpoint, http_method, consumer_key_and_secret, token_and_secret, signature_method, nonce, version, timestamp, params, now, uuid) ==
    LET c_key == consumer_key_and_secret[1]
        c_secret == consumer_key_and_secret[2]
        token == IF IsSome(token_and_secret) THEN Some(token_and_secret[1][1]) ELSE None
        token_secret == IF IsSome(token_and_secret) THEN Some(token_and_secret[1][2]) ELSE None
        ts == unwrap_or(timestamp, now)
        nc == uuid
        basic_params_encoded ==
            build_basic_params(c_key, token, signature_method, nc, ts, OAuthVersionInto(version))
        user == user_params_encoded(params)
    IN  IF IsErr(user) THEN user
        ELSE LET payload == sort(basic_params_encoded \o user.ok[1])
                 signature ==
                     IF signature_method = "PlainText"
                     THEN generate_signature_plaintext(c_secret, token_secret)
                     ELSE generate_signature_hmacsha1(c_secret, token_secret,
                                                      http_method, endpoint, payload)
             IN  Ok(SignedContent(signature, nc, payload, ts))

\* now and uuid are what Utc::now().timestamp() and Uuid::new_v4() return in this call.
sign_oauthv1(endpoint, http_method, consumer_key_and_secret, token_and_secret, signature_method, nonce, version, timestamp, params, now, uuid) ==
    LET c_key == consumer_key_and_secret[1]
        c_secret == consumer_key_and_secret[2]
        token == IF IsSome(token_and_secret) THEN Some(token_and_secret[1][1]) ELSE None
        token_secret == IF IsSome(token_and_secret) THEN Some(token_and_secret[1][2]) ELSE None
        ts == unwrap_or(timestamp, now)
        nc == unwrap_or(nonce, uuid)
        basic_params_encoded ==
            build_basic_params(c_key, token, signature_method, nc, ts, OAuthVersionInto(version))
        user == user_params_encoded(params)
    IN  IF IsErr(user) THEN user
        ELSE LET payload == sort(basic_params_encoded \o user.ok[1])
                 signature ==
                     IF signature_method = "PlainText"
                     THEN generate_signature_plaintext(c_secret, token_secret)
                     ELSE generate_signature_hmacsha1(c_secret, token_secret,
                                                      http_method, endpoint, payload)
             IN  Ok(SignedContent(signature, nc, payload, ts))

\* impl OAuthSigner for Signer<()> and for Signer<Cow<str>>
SignerSign(self, param, secr, now, uuid) ==
    sign_oauthv1(self.endpoint, self.http_method,
                 <<self.consumer_key, secr.consumer_secret>>,
                 IF IsSome(self.token)
                 THEN Some(<<self.token[1], secr.token_secret[1]>>)
                 ELSE None,
                 self.signature_method, self.nonce, self.version, self.timestamp,
                 param, now, uuid)

\* --------------------------------------------------- inputs

HttpMethods == { <<112, 79, 33, 116>> }                              \* "pO!t"
Endpoints == { <<104, 58, 47, 112>> }                                \* "h:/p"
ConsumerKeys == { <<99, 107>> }                                      \* "ck"
Tokens == { <<116, 32, 107>> }                                       \* "t k"
Nonces == { <<110, 32, 49>> }                                        \* "n 1"
Uuids == { <<117, 45, 49>>, <<117, 45, 50>> }                        \* "u-1", "u-2"
Timestamps == { 137 }
Clock == { 5, 1318 }
Versions == { OAuthVersionNone, OAuthVersionDefault, OAuthVersionCustom(<<50, 32, 48>>) }  \* "2 0"
ConsumerSecrets == { <<99, 38, 115>> }                               \* "c&s"
TokenSecrets == { <<116, 37, 115>> }                                 \* "t%s"
UserKeys == { <<97, 45>>, <<97, 47>>, REALM }                        \* "a-", "a/", "realm"
FileKeys == { <<97, 47>> }                                           \* "a/"
StringValues == { StringValue(<<120, 32, 121>>) }                    \* "x y"
OtherValues ==
    { IntValue(-7),
      FloatValue([neg |-> FALSE, whole |-> 1, tenths |-> 5]),        \* 1.5
      ByteValue(<<251>>) }
Names == { <<110, 32, 109>> }                                        \* "n m"
Contents == { <<1, 2>> }
PathA == <<100, 47, 102, 49>>                                        \* "d/f1"
PathB == <<102, 50>>                                                 \* "f2"
Paths == { PathA, PathB }
\* What the OS answers for a path: the bytes of the file, or an io::Error (its kind).
FileSystems ==
    { (PathA :> Ok(<<255, 254, 253>>)) @@ (PathB :> Err("NotFound")),
      (PathA :> Err("NotFound")) @@ (PathB :> Err("NotFound")),
      (PathA :> Err("NotFound")) @@ (PathB :> Err("PermissionDenied")) }

SignatureMethodNames == { OAUTH_VALUE_SIGMETHOD_HMACSHA1, OAUTH_VALUE_SIGMETHOD_PLAINTEXT }
\* The token oauth_token attaches: "t 2"
AttachTokens == { <<116, 32, 50>> }
V1Versions == { None, Some(<<50, 32, 48>>) }                         \* None, "2 0"
V1Keys == { <<97, 45>>, <<97, 47>> }                                 \* "a-", "a/"
V1Values == { <<120, 32, 121>> }                                    \* "x y"
\* "", "a/=1&&b&a/=%20=3"
Queries ==
    { <<>>,
      <<97, 47, 61, 49, 38, 38, 98, 38, 97, 47, 61, 37, 50, 48, 61, 51>> }

\* struct Secrets<T>: token_secret is None for Secrets<()>.
Secrets(consumer_secret, token_secret) ==
    [consumer_secret |-> consumer_secret, token_secret |-> token_secret]

\* struct Signer<T>: token is None for Signer<()>.
Signer(token, consumer_key, endpoint, http_method, nonce, signature_method, timestamp, version) ==
    [token |-> token, consumer_key |-> consumer_key, endpoint |-> endpoint,
     http_method |-> http_method, nonce |-> nonce, signature_method |-> signature_method,
     timestamp |-> timestamp, version |-> version]

\* Signer::new gives HmacSha1, no nonce, no timestamp, the default version; the
\* fields are those sign_oauthv1 is called with, so they range over their types.
Signers ==
    { Signer(t, ck, ep, m, n, sm, ts, v) :
        t \in {None} \cup {Some(x) : x \in Tokens},
        ck \in ConsumerKeys, ep \in Endpoints, m \in HttpMethods,
        n \in {None} \cup {Some(x) : x \in Nonces},
        sm \in SignatureMethod,
        ts \in {None} \cup {Some(x) : x \in Timestamps},
        v \in Versions }

\* --------------------------------------------------- v1.rs

DEFAULT_SIGNATURE == <<72, 77, 65, 67, 45, 83, 72, 65, 49>>          \* "HMAC-SHA1"
OAUTH_VERSION == <<49, 46, 48>>                                      \* "1.0"
V1_KEY_CONSUMER_KEY == OAUTH_PARAM_KEY_CONSUMER_KEY                  \* "oauth_consumer_key"
V1_KEY_SIGNATURE_METHOD == OAUTH_PARAM_KEY_SIGNATURE_METHOD          \* "oauth_signature_method"
V1_KEY_TIMESTAMP == OAUTH_PARAM_KEY_TIMESTAMP                        \* "oauth_timestamp"
V1_KEY_NONCE == OAUTH_PARAM_KEY_NONCE                                \* "oauth_nonce"
V1_KEY_VERSION == OAUTH_PARAM_KEY_VERSION                            \* "oauth_version"
V1_KEY_TOKEN == <<111, 97, 117, 116, 104, 95, 116, 111, 107, 101, 110>>   \* "oauth_token"

\* A HashMap<String, String> is a function on its finite set of keys.
EmptyMap == [k \in {} |-> <<>>]

\* HashMap::insert: the value of an existing key is replaced.
MapInsert(m, k, v) == [x \in DOMAIN m \cup {k} |-> IF x = k THEN v ELSE m[x]]

\* HashMap::iter().collect::<Vec<_>>(): the entries, in an order of the map's choosing.
RECURSIVE MapIter(_)
MapIter(m) ==
    IF DOMAIN m = {} THEN <<>>
    ELSE LET k == CHOOSE x \in DOMAIN m : TRUE
         IN  <<<<k, m[k]>>>> \o MapIter([x \in DOMAIN m \ {k} |-> m[x]])

\* OAuthSignBuilder::new / new_with_token: token is None for OAuthSignBuilder<()>;
\* uuid is what Uuid::new_v4() returns.
V1_new(consumer_key, token, uuid) ==
    [oauth_consumer_key |-> consumer_key,
     oauth_nonce |-> uuid,
     oauth_signature_method |-> DEFAULT_SIGNATURE,
     oauth_version |-> Some(OAUTH_VERSION),
     oauth_timestamp |-> None,
     oauth_token |-> token,
     encoded_parameters |-> EmptyMap]

\* str::split(sep): the segments between the separators, empty ones included.
RECURSIVE split(_, _)
split(str, sep) ==
    IF \A i \in 1..Len(str) : str[i] # sep THEN <<str>>
    ELSE LET i == CHOOSE i \in 1..Len(str) : str[i] = sep /\ \A j \in 1..(i - 1) : str[j] # sep
         IN  <<SubSeq(str, 1, i - 1)>> \o split(SubSeq(str, i + 1, Len(str)), sep)

\* str::split('='): a piece for every '=', not two at most.
splitn2_every(str) == split(str, 61)

\* str::splitn(2, '='): the text before the first '=' and the rest, or the text alone.
splitn2(str) ==
    IF \A i \in 1..Len(str) : str[i] # 61 THEN <<str>>
    ELSE LET i == CHOOSE i \in 1..Len(str) : str[i] = 61 /\ \A j \in 1..(i - 1) : str[j] # 61
         IN  <<SubSeq(str, 1, i - 1), SubSeq(str, i + 1, Len(str))>>

\* str::trim_start_matches('?')
RECURSIVE trim_start_matches(_)
trim_start_matches(str) ==
    IF str # <<>> /\ Head(str) = 63 THEN trim_start_matches(Tail(str)) ELSE str

\* The pairs of the segments that are not empty and have an '='.
RECURSIVE query_pairs(_)
query_pairs(segments) ==
    IF segments = <<>> THEN <<>>
    ELSE LET v == splitn2(Head(segments))
         IN  (IF Head(segments) # <<>> /\ Len(v) = 2 THEN <<<<v[1], v[2]>>>> ELSE <<>>)
             \o query_pairs(Tail(segments))

\* collect::<HashMap<_, _>>(): a later pair replaces an earlier one with its key.
RECURSIVE collect_map(_)
collect_map(pairs) ==
    IF pairs = <<>> THEN EmptyMap
    ELSE MapInsert(collect_map(SubSeq(pairs, 1, Len(pairs) - 1)),
                   pairs[Len(pairs)][1], pairs[Len(pairs)][2])

query_to_hashmap(query) == collect_map(query_pairs(split(trim_start_matches(query), 38)))

\* basic_params of sign_impl, keys and values percent-encoded.
V1_basic_params(self, token, now) ==
    LET timestamp == i64_to_string(unwrap_or(self.oauth_timestamp, now))
        basic ==
            << <<V1_KEY_CONSUMER_KEY, self.oauth_consumer_key>>,
               <<V1_KEY_SIGNATURE_METHOD, self.oauth_signature_method>>,
               <<V1_KEY_TIMESTAMP, timestamp>>,
               <<V1_KEY_NONCE, self.oauth_nonce>> >>
            \o (IF IsSome(self.oauth_version)
                THEN << <<V1_KEY_VERSION, self.oauth_version[1]>> >> ELSE <<>>)
            \o (IF IsSome(token) THEN << <<V1_KEY_TOKEN, token[1]>> >> ELSE <<>>)
    IN  [i \in 1..Len(basic) |-> <<percent_encode(basic[i][1]), percent_encode(basic[i][2])>>]

\* The pairs of the query percent-encoded once more on their way in.
V1_params_query_encoded(self, url_encoded_query, token, now) ==
    LET q == MapIter(url_encoded_query)
    IN  sort(V1_basic_params(self, token, now)
             \o [i \in 1..Len(q) |-> <<percent_encode(q[i][1]), percent_encode(q[i][2])>>]
             \o MapIter(self.encoded_parameters))

\* params of sign_impl: the three sources joined, then sorted.
V1_params(self, url_encoded_query, token, now) ==
    sort(V1_basic_params(self, token, now)
         \o MapIter(url_encoded_query)
         \o MapIter(self.encoded_parameters))

\* OAuthSignBuilder::sign_impl
sign_impl(self, endpoint, url_encoded_query, http_method, consumer_secret, token_and_secret, now) ==
    LET token == IF IsSome(token_and_secret) THEN Some(token_and_secret[1][1]) ELSE None
        token_secret == IF IsSome(token_and_secret) THEN Some(token_and_secret[1][2]) ELSE None
        params == V1_params(self, url_encoded_query, token, now)
    IN  HmacSha1Base64(
            percent_encode(consumer_secret) \o <<38>> \o percent_encode(unwrap_or(token_secret, <<>>)),
            percent_encode(to_ascii_uppercase(http_method))
            \o <<38>> \o percent_encode(endpoint)
            \o <<38>> \o percent_encode(param_str(params)))

\* The record of a sign call: its arguments, the clock's answer and the returned signature.
V1Call(endpoint, query, http_method, consumer_secret, token_secret, now) ==
    [endpoint |-> endpoint, query |-> query, http_method |-> http_method,
     consumer_secret |-> consumer_secret, token_secret |-> token_secret, now |-> now,
     signature |->
        sign_impl(v1, endpoint, query, http_method, consumer_secret,
                  IF IsSome(v1.oauth_token)
                  THEN Some(<<v1.oauth_token[1], token_secret[1]>>) ELSE None,
                  now)]

\* OAuthSignBuilder::oauth_nonce
V1_oauth_nonce(nonce) ==
    /\ v1_call = None
    /\ v1' = [v1 EXCEPT !.oauth_nonce = nonce]
    /\ UNCHANGED <<v1_adds, v1_call, v1_signed, bvars, uvars, hmac>>

\* OAuthSignBuilder::oauth_signature_method
V1_oauth_signature_method(signature_method) ==
    /\ v1_call = None
    /\ v1' = [v1 EXCEPT !.oauth_signature_method = signature_method]
    /\ UNCHANGED <<v1_adds, v1_call, v1_signed, bvars, uvars, hmac>>

\* OAuthSignBuilder::oauth_version
V1_oauth_version(version) ==
    /\ v1_call = None
    /\ v1' = [v1 EXCEPT !.oauth_version = version]
    /\ UNCHANGED <<v1_adds, v1_call, v1_signed, bvars, uvars, hmac>>

\* OAuthSignBuilder::oauth_timestamp
V1_oauth_timestamp(timestamp) ==
    /\ v1_call = None
    /\ v1' = [v1 EXCEPT !.oauth_timestamp = Some(timestamp)]
    /\ UNCHANGED <<v1_adds, v1_call, v1_signed, bvars, uvars, hmac>>

\* The new builder made without a token, the rest moved over.
V1_oauth_token_dropped(token) ==
    /\ v1_call = None
    /\ v1' = [oauth_consumer_key |-> v1.oauth_consumer_key,
              oauth_nonce |-> v1.oauth_nonce,
              oauth_signature_method |-> v1.oauth_signature_method,
              oauth_version |-> v1.oauth_version,
              oauth_timestamp |-> v1.oauth_timestamp,
              oauth_token |-> None,
              encoded_parameters |-> v1.encoded_parameters]
    /\ UNCHANGED <<v1_adds, v1_call, v1_signed, bvars, uvars, hmac>>

\* OAuthSignBuilder::oauth_token: a new builder with the token, the rest moved over.
V1_oauth_token(token) ==
    /\ v1_call = None
    /\ v1' = [oauth_consumer_key |-> v1.oauth_consumer_key,
              oauth_nonce |-> v1.oauth_nonce,
              oauth_signature_method |-> v1.oauth_signature_method,
              oauth_version |-> v1.oauth_version,
              oauth_timestamp |-> v1.oauth_timestamp,
              oauth_token |-> Some(token),
              encoded_parameters |-> v1.encoded_parameters]
    /\ UNCHANGED <<v1_adds, v1_call, v1_signed, bvars, uvars, hmac>>

\* OAuthSignBuilder::add_param
V1_add_param(key, value) ==
    /\ v1_call = None
    /\ v1_adds < MaxParams
    /\ v1' = [v1 EXCEPT !.encoded_parameters =
                 MapInsert(@, percent_encode(key), percent_encode(value))]
    /\ v1_adds' = v1_adds + 1
    /\ UNCHANGED <<v1_call, v1_signed, bvars, uvars, hmac>>

\* OAuthSignBuilder::add_param_encoded
V1_add_param_encoded(key, value) ==
    /\ v1_call = None
    /\ v1_adds < MaxParams
    /\ v1' = [v1 EXCEPT !.encoded_parameters = MapInsert(@, key, value)]
    /\ v1_adds' = v1_adds + 1
    /\ UNCHANGED <<v1_call, v1_signed, bvars, uvars, hmac>>

\* OAuthSignBuilder<()>::sign: no query.
V1_sign(endpoint, http_method, consumer_secret, now) ==
    /\ v1_call = None
    /\ IsNone(v1.oauth_token)
    /\ v1_call' = Some(V1Call(endpoint, EmptyMap, http_method, consumer_secret, None, now))
    /\ v1_signed' = TRUE
    /\ UNCHANGED <<v1, v1_adds, bvars, uvars, hmac>>

\* OAuthSignBuilder<()>::sign_with_query
V1_sign_with_query(endpoint, url_encoded_query, http_method, consumer_secret, now) ==
    /\ v1_call = None
    /\ IsNone(v1.oauth_token)
    /\ v1_call' = Some(V1Call(endpoint, query_to_hashmap(url_encoded_query), http_method,
                              consumer_secret, None, now))
    /\ v1_signed' = TRUE
    /\ UNCHANGED <<v1, v1_adds, bvars, uvars, hmac>>

\* OAuthSignBuilder<String>::sign
V1_sign_token(endpoint, url_encoded_query, http_method, consumer_secret, token_secret, now) ==
    /\ v1_call = None
    /\ IsSome(v1.oauth_token)
    /\ v1_call' = Some(V1Call(endpoint, query_to_hashmap(url_encoded_query), http_method,
                              consumer_secret, Some(token_secret), now))
    /\ v1_signed' = TRUE
    /\ UNCHANGED <<v1, v1_adds, bvars, uvars, hmac>>

\* The caller takes the String a sign call returned; the builder (&self) lives on.
V1_return ==
    /\ v1_call # None
    /\ v1_call' = None
    /\ UNCHANGED <<v1, v1_adds, v1_signed, bvars, uvars, hmac>>

\* --------------------------------------------------- idle parts

\* The v1.rs builder while the builder.rs one is exercised, and the reverse.
V1Idle ==
    /\ v1 = V1_new(<<99, 107>>, None, <<117, 45, 49>>)
    /\ v1_adds = 0
    /\ v1_call = None
    /\ v1_signed = FALSE

BuilderIdle ==
    /\ fs = [q \in Paths |-> Err("NotFound")]
    /\ pc = "signed"
    /\ signer = Signer(None, <<99, 107>>, <<104, 58, 47, 112>>, <<112, 79, 33, 116>>,
                       None, "HmacSha1", None, OAuthVersionDefault)
    /\ parameters = <<>>
    /\ secrets = None
    /\ result = None

\* No HMAC-SHA1 computation is under way.
NoMac ==
    [via |-> "none", pc |-> "idle", key |-> <<>>, data |-> <<>>, outer |-> FALSE,
     blocks |-> <<>>, blk |-> 0, t |-> 0, w |-> <<>>, abcde |-> <<>>, h |-> <<>>,
     code |-> None]

\* --------------------------------------------------- util.rs

\* A parsed url::Url: the text up to the query (scheme, host, path: no '?', no '#'),
\* the query (no '#') and the fragment, each present or not.
Url(base, query, fragment) == [base |-> base, query |-> query, fragment |-> fragment]

\* Url::query
UrlQuery(url) == url.query

\* Url::as_str: the serialization, "?" before a query and "#" before a fragment.
UrlAsStr(url) ==
    url.base
    \o (IF IsSome(url.query) THEN <<63>> \o url.query[1] ELSE <<>>)
    \o (IF IsSome(url.fragment) THEN <<35>> \o url.fragment[1] ELSE <<>>)

destructure_query(query) == query_pairs(split(trim_start_matches(query), 38))

\* The result is the pair (endpoint, pairs).
url_to_endpoint_and_queries(url) ==
    LET vec == IF IsSome(UrlQuery(url)) THEN destructure_query(UrlQuery(url)[1]) ELSE <<>>
        body == split(UrlAsStr(url), 63)[1]
    IN  <<body, vec>>

\* Longest text given to the encoder and longest query given to destructure_query.
MaxText == 3
MaxQuery == 5

\* 'A' 'z' '0' '-' '.' '_' '~' ' ' '%' '/' and 0xE3, the first byte of a kana.
EncoderBytes == { 65, 122, 48, 45, 46, 95, 126, 32, 37, 47, 227 }
\* 'a' 'b' '=' '&' '?'
QueryBytes == { 97, 98, 61, 38, 63 }

\* The texts of at most n bytes of the set B.
TextsUpTo(B, n) == UNION { [1..k -> B] : k \in 0..n }

EncoderInputs == { <<b>> : b \in 0..255 } \cup TextsUpTo(EncoderBytes, MaxText)
QueryInputs == TextsUpTo(QueryBytes, MaxQuery)
\* "h:/p" with no query, "", "a=1&b", "?a=1" or "a?=1=2", and no fragment, "", "f" or "f?x".
UrlInputs ==
    { Url(<<104, 58, 47, 112>>, q, f) :
        q \in { None, Some(<<>>), Some(<<97, 61, 49, 38, 98>>), Some(<<63, 97, 61, 49>>),
                Some(<<97, 63, 61, 49, 61, 50>>) },
        f \in { None, Some(<<>>), Some(<<102>>), Some(<<102, 63, 120>>) } }

NoUrl == Url(<<>>, None, None)

\* A call: the function, its argument (a text or a Url) and what it returned, if it has.
UtilCall(fn, text, url) == [fn |-> fn, text |-> text, url |-> url, ret |-> None]

UtilIdle == util = UtilCall("none", <<>>, NoUrl)

InitUtil ==
    /\ util \in { UtilCall("percent_encode", t, NoUrl) : t \in EncoderInputs }
           \cup { UtilCall("destructure_query", t, NoUrl) : t \in QueryInputs }
           \cup { UtilCall("url_to_endpoint_and_queries", <<>>, u) : u \in UrlInputs }
    /\ V1Idle
    /\ BuilderIdle
    /\ hmac = NoMac

call_percent_encode ==
    /\ util.fn = "percent_encode"
    /\ util.ret = None
    /\ util' = [util EXCEPT !.ret = Some(percent_encode(util.text))]
    /\ UNCHANGED <<bvars, v1vars, hmac>>

call_destructure_query ==
    /\ util.fn = "destructure_query"
    /\ util.ret = None
    /\ util' = [util EXCEPT !.ret = Some(destructure_query(util.text))]
    /\ UNCHANGED <<bvars, v1vars, hmac>>

call_url_to_endpoint_and_queries ==
    /\ util.fn = "url_to_endpoint_and_queries"
    /\ util.ret = None
    /\ util' = [util EXCEPT !.ret = Some(url_to_endpoint_and_queries(util.url))]
    /\ UNCHANGED <<bvars, v1vars, hmac>>

NextUtil ==
    \/ call_percent_encode
    \/ call_destructure_query
    \/ call_url_to_endpoint_and_queries

SpecUtil == InitUtil /\ [][NextUtil]_vars

\* --------------------------------------------------- hmac and sha1 crates

\* A u32 is the pair <<high, low>> of its 16-bit halves.
RECURSIVE BitAnd(_, _)
\* The bitwise and of two naturals.
BitAnd(a, b) ==
    IF a = 0 \/ b = 0 THEN 0
    ELSE (a % 2) * (b % 2) + 2 * BitAnd(a \div 2, b \div 2)

and32(x, y) == <<BitAnd(x[1], y[1]), BitAnd(x[2], y[2])>>

\* a ^ b is a + b - 2 * (a & b) on each half.
xor32(x, y) ==
    <<x[1] + y[1] - 2 * BitAnd(x[1], y[1]), x[2] + y[2] - 2 * BitAnd(x[2], y[2])>>

\* u32::wrapping_add
wrapping_add(x, y) ==
    LET low == x[2] + y[2]
        high == x[1] + y[1] + (low \div 65536)
    IN  <<high % 65536, low % 65536>>

\* u32::rotate_left, 0 <= n < 32
rotate_left(x, n) ==
    LET y == IF n >= 16 THEN <<x[2], x[1]>> ELSE x
        m == n % 16
        p == 2 ^ m
        q == 2 ^ (16 - m)
    IN  IF m = 0 THEN y
        ELSE <<((y[1] * p) % 65536) + (y[2] \div q), ((y[2] * p) % 65536) + (y[1] \div q)>>

\* SHA-1: the initial hash value (67452301 EFCDAB89 98BADCFE 10325476 C3D2E1F0).
SHA1_H == <<<<26437, 8961>>, <<61389, 43913>>, <<39098, 56574>>, <<4146, 21622>>, <<50130, 57840>>>>

\* SHA-1: the constant of round t (5A827999, 6ED9EBA1, 8F1BBCDC, CA62C1D6).
SHA1_K(t) ==
    IF t < 20 THEN <<23170, 31129>>
    ELSE IF t < 40 THEN <<28377, 60321>>
    ELSE IF t < 60 THEN <<36635, 48348>>
    ELSE <<51810, 49622>>

\* SHA-1: the function of round t: choose (b & c) ^ (!b & d), parity b ^ c ^ d,
\* majority (b & c) ^ (b & d) ^ (c & d), parity.
SHA1_F(t, b, c, d) ==
    IF t < 20 THEN xor32(and32(b, c), and32(<<65535 - b[1], 65535 - b[2]>>, d))
    ELSE IF t < 40 THEN xor32(xor32(b, c), d)
    ELSE IF t < 60 THEN xor32(xor32(and32(b, c), and32(b, d)), and32(c, d))
    ELSE xor32(xor32(b, c), d)

\* SHA-1 padding: 0x80, zeros up to 56 mod 64, the length in bits on 8 bytes.
sha1_pad(data) ==
    LET n == Len(data)
        zeros == (119 - (n % 64)) % 64
        bits == n * 8
    IN  data \o <<128>> \o [i \in 1..zeros |-> 0]
        \o <<0, 0, 0, 0, (bits \div 16777216) % 256, (bits \div 65536) % 256,
             (bits \div 256) % 256, bits % 256>>

\* The 16 big-endian words of the block blk of the padded data.
block_words(blocks, blk) ==
    [j \in 1..16 |->
        LET o == (blk - 1) * 64 + (j - 1) * 4
        IN  <<blocks[o + 1] * 256 + blocks[o + 2], blocks[o + 3] * 256 + blocks[o + 4]>>]

\* The 20 bytes of the hash value h.
digest_bytes(h) ==
    [i \in 1..20 |->
        LET word == h[((i - 1) \div 4) + 1]
            at == (i - 1) % 4
        IN  IF at = 0 THEN word[1] \div 256
            ELSE IF at = 1 THEN word[1] % 256
            ELSE IF at = 2 THEN word[2] \div 256
            ELSE word[2] % 256]

\* The key block xored with the pad byte (0x36 inner, 0x5c outer).
key_pad(key, pad) == [i \in 1..Len(key) |-> key[i] + pad - 2 * BitAnd(key[i], pad)]

\* A SHA-1 computation over data begins: padded, first block loaded.
sha1_begin(mac, data, outer) ==
    LET blocks == sha1_pad(data)
    IN  [mac EXCEPT !.pc = "hashing", !.outer = outer, !.blocks = blocks, !.blk = 1,
                    !.t = 0, !.w = block_words(blocks, 1), !.abcde = SHA1_H, !.h = SHA1_H]

\* The hash value once the rounds of the current block are done.
sha1_add(mac) == [i \in 1..5 |-> wrapping_add(mac.h[i], mac.abcde[i])]

\* Hmac::new_varkey: the key zero-padded to the 64 bytes of a block (a key longer than a
\* block would be hashed first; the signing keys here are shorter).
mac_new_varkey ==
    /\ hmac.pc = "called"
    /\ Len(hmac.key) <= 64
    /\ hmac' = [hmac EXCEPT !.pc = "keyed",
                            !.key = hmac.key \o [i \in 1..(64 - Len(hmac.key)) |-> 0]]
    /\ UNCHANGED <<bvars, v1vars, uvars>>

\* Mac::input: the inner hash runs over (key xor ipad) followed by the data.
mac_input ==
    /\ hmac.pc = "keyed"
    /\ hmac' = sha1_begin(hmac, key_pad(hmac.key, 54) \o hmac.data, FALSE)
    /\ UNCHANGED <<bvars, v1vars, uvars>>

\* One of the 80 rounds of the SHA-1 compression of the current block.
sha1_round ==
    /\ hmac.pc = "hashing"
    /\ hmac.t < 80
    /\ LET t == hmac.t
           w == hmac.w
           a == hmac.abcde[1]
           b == hmac.abcde[2]
           c == hmac.abcde[3]
           d == hmac.abcde[4]
           e == hmac.abcde[5]
           wt == IF t < 16 THEN w[t + 1]
                 ELSE rotate_left(xor32(xor32(w[14], w[9]), xor32(w[3], w[1])), 1)
           temp == wrapping_add(wrapping_add(wrapping_add(rotate_left(a, 5), SHA1_F(t, b, c, d)),
                                             wrapping_add(e, SHA1_K(t))),
                                wt)
       IN  hmac' = [hmac EXCEPT !.t = t + 1,
                                !.w = IF t < 16 THEN w ELSE Tail(w) \o <<wt>>,
                                !.abcde = <<temp, a, rotate_left(b, 30), c, d>>]
    /\ UNCHANGED <<bvars, v1vars, uvars>>

\* The current block is done and another follows.
sha1_next_block ==
    /\ hmac.pc = "hashing"
    /\ hmac.t = 80
    /\ hmac.blk * 64 < Len(hmac.blocks)
    /\ hmac' = [hmac EXCEPT !.blk = hmac.blk + 1, !.t = 0,
                            !.w = block_words(hmac.blocks, hmac.blk + 1),
                            !.abcde = sha1_add(hmac), !.h = sha1_add(hmac)]
    /\ UNCHANGED <<bvars, v1vars, uvars>>

\* Mac::result, first half: the inner hash is done, the outer hash runs over
\* (key xor opad) followed by the inner digest.
mac_result_inner ==
    /\ hmac.pc = "hashing"
    /\ hmac.t = 80
    /\ hmac.blk * 64 = Len(hmac.blocks)
    /\ ~ hmac.outer
    /\ hmac' = sha1_begin(hmac, key_pad(hmac.key, 92) \o digest_bytes(sha1_add(hmac)), TRUE)
    /\ UNCHANGED <<bvars, v1vars, uvars>>

\* Mac::result().code() and base64::encode: the signature returned.
mac_result ==
    /\ hmac.pc = "hashing"
    /\ hmac.t = 80
    /\ hmac.blk * 64 = Len(hmac.blocks)
    /\ hmac.outer
    /\ hmac' = [hmac EXCEPT !.pc = "done", !.h = sha1_add(hmac),
                            !.code = Some(base64_encode(digest_bytes(sha1_add(hmac))))]
    /\ UNCHANGED <<bvars, v1vars, uvars>>

\* --------------------------------------------------- the RFC 5849 tests

\* v1/signer.rs test_sign_rfc5849, up to the call of HmacSha1 in sign_oauthv1.
test_sign_rfc5849(now, uuid) ==
    LET \* "https://photos.example.net/initiate"
        url == Url(<<104, 116, 116, 112, 115, 58, 47, 47, 112, 104, 111, 116, 111, 115, 46, 101,
                  120, 97, 109, 112, 108, 101, 46, 110, 101, 116, 47, 105, 110, 105, 116, 105,
                  97, 116, 101>>,
                   None, None)
        parts == url_to_endpoint_and_queries(url)
        method == <<112, 111, 115, 116>>                                 \* "post"
        c_key == <<100, 112, 102, 52, 51, 102, 51, 112, 50, 108, 52, 107, 51, 108, 48, 51>>
        c_secret == <<107, 100, 57, 52, 104, 102, 57, 51, 107, 52, 50, 51, 107, 102, 52, 52>>
        nonce == <<119, 73, 106, 113, 111, 83>>                       \* "wIjqoS"
        \* query.push(("realm", "photos"));
        \* query.push(("oauth_callback", "http://printer.example.com/ready"))
        query == parts[2]
                 \o << <<REALM, <<112, 104, 111, 116, 111, 115>>>>,
                       <<<<111, 97, 117, 116, 104, 95, 99, 97, 108, 108, 98, 97, 99, 107>>,
                         <<104, 116, 116, 112, 58, 47, 47, 112, 114, 105, 110, 116, 101, 114, 46,
                     101, 120, 97, 109, 112, 108, 101, 46, 99, 111, 109, 47, 114, 101, 97, 100,
                     121>>>> >>
    IN  sign_oauthv1(parts[1], method, <<c_key, c_secret>>, None, "HmacSha1",
                     Some(nonce), OAuthVersionNone, Some(137131200),
                     [i \in 1..Len(query) |-> <<query[i][1], StringValue(query[i][2])>>],
                     now, uuid).ok[1].signature

\* OAuthSignBuilder<()>::sign_to_url
V1_sign_to_url(self, url, http_method, consumer_secret, now) ==
    LET parts == url_to_endpoint_and_queries(url)
    IN  sign_impl(self, parts[1], collect_map(parts[2]), http_method, consumer_secret, None, now)

\* v1.rs test_signing, its RFC 5849 half, up to the call of HmacSha1 in sign_impl.
test_signing(now, uuid) ==
    LET \* "https://photos.example.net/initiate"
        endpoint == Url(<<104, 116, 116, 112, 115, 58, 47, 47, 112, 104, 111, 116, 111, 115, 46, 101,
                  120, 97, 109, 112, 108, 101, 46, 110, 101, 116, 47, 105, 110, 105, 116, 105,
                  97, 116, 101>>,
                        None, None)
        method == <<112, 111, 115, 116>>                                 \* "post"
        c_key == <<100, 112, 102, 52, 51, 102, 51, 112, 50, 108, 52, 107, 51, 108, 48, 51>>
        c_secret == <<107, 100, 57, 52, 104, 102, 57, 51, 107, 52, 50, 51, 107, 102, 52, 52>>
        nonce == <<119, 73, 106, 113, 111, 83>>                       \* "wIjqoS"
        set == [V1_new(c_key, None, uuid) EXCEPT
                    !.oauth_nonce = nonce,
                    !.oauth_version = None,
                    !.oauth_timestamp = Some(137131200)]
        \* add_param("realm", "photos")
        \* add_param("oauth_callback", "http://printer.example.com/ready")
        builder ==
            [set EXCEPT !.encoded_parameters =
                MapInsert(MapInsert(@, percent_encode(REALM), percent_encode(<<112, 104, 111, 116, 111, 115>>)),
                          percent_encode(<<111, 97, 117, 116, 104, 95, 99, 97, 108, 108, 98, 97, 99, 107>>),
                          percent_encode(<<104, 116, 116, 112, 58, 47, 47, 112, 114, 105, 110, 116, 101, 114, 46,
                     101, 120, 97, 109, 112, 108, 101, 46, 99, 111, 109, 47, 114, 101, 97, 100,
                     121>>))]
    IN  V1_sign_to_url(builder, endpoint, method, c_secret, now)

\* The two tests have reached HmacSha1::new_varkey(sign_key.as_bytes()) with their key and
\* mac.input(base_str.as_bytes()) with their base string.
InitVector ==
    /\ \E now \in Clock, uuid \in Uuids :
          \/ hmac = [NoMac EXCEPT !.via = "v1/signer.rs", !.pc = "called",
                                  !.key = test_sign_rfc5849(now, uuid).mac[1].key,
                                  !.data = test_sign_rfc5849(now, uuid).mac[1].msg]
          \/ hmac = [NoMac EXCEPT !.via = "v1.rs", !.pc = "called",
                                  !.key = test_signing(now, uuid).mac[1].key,
                                  !.data = test_signing(now, uuid).mac[1].msg]
    /\ BuilderIdle
    /\ V1Idle
    /\ UtilIdle

NextVector ==
    \/ mac_new_varkey
    \/ mac_input
    \/ sha1_round
    \/ sha1_next_block
    \/ mac_result_inner
    \/ mac_result

SpecVector == InitVector /\ [][NextVector]_vars

\* --------------------------------------------------- builder.rs

\* OAuthSignBuilder::new(signer)
Init ==
    /\ fs \in FileSystems
    /\ pc = "building"
    /\ signer \in Signers
    /\ parameters = <<>>
    /\ secrets = None
    /\ result = None
    /\ V1Idle
    /\ UtilIdle
    /\ hmac = NoMac

\* v1.rs OAuthSignBuilder::new(consumer_key) / new_with_token(consumer_key, token)
InitV1 ==
    /\ \E ck \in ConsumerKeys, t \in {None} \cup {Some(x) : x \in Tokens}, uuid \in Uuids :
          v1 = V1_new(ck, t, uuid)
    /\ v1_adds = 0
    /\ v1_call = None
    /\ v1_signed = FALSE
    /\ BuilderIdle
    /\ UtilIdle
    /\ hmac = NoMac

\* OAuthSignBuilder::param
param(key, value) ==
    /\ pc = "building"
    /\ Len(parameters) < MaxParams
    /\ parameters' = Append(parameters, <<key, value>>)
    /\ UNCHANGED <<fs, pc, signer, secrets, result, v1vars, uvars, hmac>>

\* OAuthSignBuilder::param_file
param_file(key, path) ==
    /\ pc = "building"
    /\ Len(parameters) < MaxParams
    /\ parameters' = Append(parameters, <<key, from_file(path)>>)
    /\ UNCHANGED <<fs, pc, signer, secrets, result, v1vars, uvars, hmac>>

\* OAuthSignBuilder::param_bytes
param_bytes(key, name, bytes) ==
    /\ pc = "building"
    /\ Len(parameters) < MaxParams
    /\ parameters' = Append(parameters, <<key, from_bytes(name, bytes)>>)
    /\ UNCHANGED <<fs, pc, signer, secrets, result, v1vars, uvars, hmac>>

\* OAuthSignBuilder::sign(self, secrets): consumes the builder.
sign(secr, now, uuid) ==
    /\ pc = "building"
    /\ IsSome(secr.token_secret) <=> IsSome(signer.token)
    /\ result' = Some(SignerSign(signer, parameters, secr, now, uuid))
    /\ secrets' = Some(secr)
    /\ pc' = "signed"
    /\ UNCHANGED <<fs, signer, parameters, v1vars, uvars, hmac>>

Next ==
    \/ \E key \in UserKeys, value \in StringValues : param(key, value)
    \/ \E key \in FileKeys, value \in OtherValues : param(key, value)
    \/ \E key \in FileKeys, path \in Paths : param_file(key, path)
    \/ \E key \in FileKeys, name \in Names, bytes \in Contents : param_bytes(key, name, bytes)
    \/ \E cs \in ConsumerSecrets, tsec \in {None} \cup {Some(x) : x \in TokenSecrets},
          now \in Clock, uuid \in Uuids :
            sign(Secrets(cs, tsec), now, uuid)

Spec == Init /\ [][Next]_vars

NextV1 ==
    \/ \E nonce \in Nonces : V1_oauth_nonce(nonce)
    \/ \E m \in SignatureMethodNames : V1_oauth_signature_method(m)
    \/ \E v \in V1Versions : V1_oauth_version(v)
    \/ \E t \in Timestamps : V1_oauth_timestamp(t)
    \/ \E t \in AttachTokens : V1_oauth_token(t)
    \/ \E key \in V1Keys, value \in V1Values : V1_add_param(key, value)
    \/ \E key \in V1Keys, value \in V1Values : V1_add_param_encoded(key, value)
    \/ \E ep \in Endpoints, m \in HttpMethods, cs \in ConsumerSecrets, now \in Clock :
          V1_sign(ep, m, cs, now)
    \/ \E ep \in Endpoints, q \in Queries, m \in HttpMethods, cs \in ConsumerSecrets,
          now \in Clock :
          V1_sign_with_query(ep, q, m, cs, now)
    \/ \E ep \in Endpoints, q \in Queries, m \in HttpMethods, cs \in ConsumerSecrets,
          tsec \in TokenSecrets, now \in Clock :
          V1_sign_token(ep, q, m, cs, tsec, now)
    \/ V1_return

SpecV1 == InitV1 /\ [][NextV1]_vars

\* --------------------------------------------------- properties

\* sign has returned / returned a SignedContent / returned an io::Error.
Signed == pc = "signed" /\ IsSome(result)
SignedOk == Signed /\ IsOk(result[1])
SignedErr == Signed /\ IsErr(result[1])

\* The SignedContent sign returned (in a SignedOk state).
Content == result[1].ok[1]

\* What sign returns for the parameter list ps, everything else as in the call made:
\* the same signer and secrets, the same answers of the clock and of the generator.
SignAgain(ps) ==
    SignerSign(signer, ps, secrets[1],
               unwrap_or(signer.timestamp, Content.timestamp),
               unwrap_or(signer.nonce, Content.nonce))

\* The positions of the FileValue parameters whose file cannot be read.
FailingFiles ==
    { i \in 1..Len(parameters) :
        parameters[i][2].kind = "FileValue" /\ IsErr(fs[parameters[i][2].s]) }

\* The orders in which n parameters can be added.
Orders(n) == { f \in [1..n -> 1..n] : \A i, j \in 1..n : i # j => f[i] # f[j] }

\* C1: for a Bound session the payload has the pair (oauth_token, percent-encoded
\* token), and exactly one oauth_nonce pair, which carries the nonce.
C1_TokenUnderItsKey ==
    (SignedOk /\ IsSome(signer.token)) =>
        LET pl == Content.payload
        IN  /\ \E i \in 1..Len(pl) : pl[i] = <<V1_KEY_TOKEN, percent_encode(signer.token[1])>>
            /\ \A i \in 1..Len(pl) :
                  pl[i][1] = OAUTH_PARAM_KEY_NONCE => pl[i][2] = percent_encode(Content.nonce)

\* C2: a user parameter `realm` is in the payload, and the signature is the one
\* sign returns for the same inputs without the realm parameters.
C2_RealmExcluded ==
    SignedOk =>
        LET pl == Content.payload
            without == SelectSeq(parameters, LAMBDA q : q[1] # REALM)
        IN  /\ \A i \in 1..Len(parameters) :
                  parameters[i][1] = REALM => \E j \in 1..Len(pl) : pl[j][1] = REALM
            /\ IsOk(SignAgain(without))
            /\ SignAgain(without).ok[1].signature = Content.signature

\* C2 happens: an HMAC-SHA1 signature of a request with a realm and another parameter.
C2_Witness ==
    /\ SignedOk
    /\ signer.signature_method = "HmacSha1"
    /\ Len(parameters) = 2
    /\ parameters[1][1] = REALM
    /\ parameters[2][1] # REALM
    /\ \E j \in 1..Len(Content.payload) : Content.payload[j][1] = REALM

\* C3: the PLAINTEXT signature is percent_encode(consumer_secret) & percent_encode(token
\* secret), the token secret being empty for an Unbound session.
C3_PlaintextEncoded ==
    (SignedOk /\ signer.signature_method = "PlainText") =>
        Content.signature =
            PlainSignature(percent_encode(secrets[1].consumer_secret) \o <<38>>
                           \o percent_encode(unwrap_or(secrets[1].token_secret, <<>>)))

\* C4: the HMAC-SHA1 key is percent_encode(consumer_secret) & percent_encode(token secret)
\* (nothing after the & when Unbound), and the signature is the base64 HMAC, under that
\* key, of the base string of the returned payload.
C4_HmacKey ==
    (SignedOk /\ signer.signature_method = "HmacSha1") =>
        /\ Content.signature.text = <<>>
        /\ IsSome(Content.signature.mac)
        /\ Content.signature.mac[1].key =
              percent_encode(secrets[1].consumer_secret) \o <<38>>
              \o (IF IsSome(signer.token) THEN percent_encode(secrets[1].token_secret[1])
                  ELSE <<>>)
        /\ Content.signature.mac[1].msg =
              base_str(signer.http_method, signer.endpoint, Content.payload)

\* C4 happens, Bound and Unbound: an HMAC-SHA1 signature whose secrets need escaping.
C4_Witness ==
    /\ SignedOk
    /\ signer.signature_method = "HmacSha1"
    /\ IsSome(signer.token)
    /\ percent_encode(secrets[1].consumer_secret) # secrets[1].consumer_secret
    /\ percent_encode(secrets[1].token_secret[1]) # secrets[1].token_secret[1]

\* The realm-free pairs of the payload as key=value segments joined by &.
ParameterString(pl) ==
    LET kept == SelectSeq(pl, LAMBDA q : q[1] # REALM)
    IN  join([i \in 1..Len(kept) |-> kept[i][1] \o <<61>> \o kept[i][2]], <<38>>)

\* C5 as stated: the base string is UPPERCASE(method) & percent_encode(endpoint) &
\* percent_encode(P).
C5_BaseStringAsStated ==
    (SignedOk /\ signer.signature_method = "HmacSha1") =>
        Content.signature.mac[1].msg =
            to_ascii_uppercase(signer.http_method)
            \o <<38>> \o percent_encode(signer.endpoint)
            \o <<38>> \o percent_encode(ParameterString(Content.payload))

\* C5 amended: the base string is percent_encode(UPPERCASE(method)) &
\* percent_encode(endpoint) & percent_encode(P): the upper-cased method is encoded too.
C5_BaseString ==
    (SignedOk /\ signer.signature_method = "HmacSha1") =>
        Content.signature.mac[1].msg =
            percent_encode(to_ascii_uppercase(signer.http_method))
            \o <<38>> \o percent_encode(signer.endpoint)
            \o <<38>> \o percent_encode(ParameterString(Content.payload))

\* C5 happens: a base string of a lower-case method, a realm and an escaped value.
C5_Witness ==
    /\ SignedOk
    /\ signer.signature_method = "HmacSha1"
    /\ to_ascii_uppercase(signer.http_method) # signer.http_method
    /\ Len(parameters) = 2
    /\ parameters[1][1] = REALM
    /\ parameters[2][1] # REALM
    /\ ParameterString(Content.payload) # percent_encode(ParameterString(Content.payload))

\* C6: the payload is ascending in (percent-encoded key, encoded value).
C6_SortedByEncodedKey ==
    SignedOk =>
        LET pl == Content.payload
        IN  \A i, j \in 1..Len(pl) :
                i < j => PairLeq(<<percent_encode(pl[i][1]), pl[i][2]>>,
                                 <<percent_encode(pl[j][1]), pl[j][2]>>)

\* C7: adding the same parameters in any order gives the same payload and signature.
C7_PermutationInvariant ==
    SignedOk =>
        \A f \in Orders(Len(parameters)) :
            LET again == SignAgain([i \in 1..Len(parameters) |-> parameters[f[i]]])
            IN  /\ IsOk(again)
                /\ again.ok[1].payload = Content.payload
                /\ again.ok[1].signature = Content.signature

\* C7 happens: two different parameters, added in the order that is not the sorted one.
C7_Witness ==
    /\ SignedOk
    /\ signer.signature_method = "HmacSha1"
    /\ Len(parameters) = 2
    /\ StrLess(parameters[2][1], parameters[1][1])

\* C8: the aggregated pairs are as many as the protocol parameters, the query pairs and
\* the add-parameter calls together.
C8_NoDeduplication ==
    IsSome(v1_call) =>
        Len(V1_params(v1, v1_call[1].query, v1.oauth_token, v1_call[1].now))
          = 4 + Len(v1.oauth_version) + Len(v1.oauth_token)
            + Cardinality(DOMAIN v1_call[1].query) + v1_adds

\* C9: sign returns an io::Error exactly when some FileValue parameter cannot be read,
\* and then no SignedContent; otherwise it returns a SignedContent and no error.
C9_ErrorIffFileFails ==
    Signed =>
        /\ IsErr(result[1]) <=> FailingFiles # {}
        /\ IsErr(result[1]) => result[1].ok = <<>>
        /\ IsOk(result[1]) <=> ~ IsErr(result[1])

\* C9 happens: the unreadable file is the second parameter, after one of another kind.
C9_Witness ==
    /\ SignedErr
    /\ Len(parameters) = 2
    /\ parameters[1][2].kind # "FileValue"
    /\ FailingFiles = {2}

V1SignedNonces ==
    LET ps == V1_params(v1, v1_call[1].query, v1.oauth_token, v1_call[1].now)
    IN  { ps[i][2] : i \in { j \in 1..Len(ps) : ps[j][1] = V1_KEY_NONCE } }

\* C11: a sign call on a session whose nonce was never set explicitly signs a nonce
\* generated for that call, not a nonce the session has held since its construction.
C11_NonceGeneratedAtSign ==
    (IsSome(v1_call) /\ v1.oauth_nonce \in Uuids) =>
        percent_encode(v1.oauth_nonce) \notin V1SignedNonces

\* C12: the payload has the pair (oauth_nonce, percent-encoded `nonce` field), the only
\* oauth_nonce pair of an Unbound session, and one oauth_timestamp pair, the decimal form
\* of the `timestamp` field; a nonce or timestamp set on the Signer is returned verbatim.
C12_ContentCarriesUsed ==
    SignedOk =>
        LET pl == Content.payload
        IN  /\ \E i \in 1..Len(pl) :
                  pl[i] = <<OAUTH_PARAM_KEY_NONCE, percent_encode(Content.nonce)>>
            /\ IsNone(signer.token) =>
                  Cardinality({ i \in 1..Len(pl) : pl[i][1] = OAUTH_PARAM_KEY_NONCE }) = 1
            /\ Cardinality({ i \in 1..Len(pl) : pl[i][1] = OAUTH_PARAM_KEY_TIMESTAMP }) = 1
            /\ \E i \in 1..Len(pl) :
                  pl[i] = <<OAUTH_PARAM_KEY_TIMESTAMP,
                            percent_encode(i64_to_string(Content.timestamp))>>
            /\ IsSome(signer.nonce) => Content.nonce = signer.nonce[1]
            /\ IsSome(signer.timestamp) => Content.timestamp = signer.timestamp[1]

\* C12 happens: a nonce that needs escaping was set, a timestamp was set, and the clock
\* and the generator answered something else in the call.
C12_Witness ==
    /\ SignedOk
    /\ IsSome(signer.nonce)
    /\ IsSome(signer.timestamp)
    /\ percent_encode(Content.nonce) # Content.nonce
    /\ Content.timestamp \notin Clock
    /\ Len(parameters) = 1

\* C13: with the nonce and the timestamp set, the signature and the payload are those of
\* any sign call with the same Signer, secrets and parameters, in whatever order they
\* were added and whatever the clock and the generator answer in that call.
C13_Deterministic ==
    (SignedOk /\ IsSome(signer.nonce) /\ IsSome(signer.timestamp)) =>
        \A now \in Clock, uuid \in Uuids, f \in Orders(Len(parameters)) :
            LET again == SignerSign(signer, [i \in 1..Len(parameters) |-> parameters[f[i]]],
                                    secrets[1], now, uuid)
            IN  /\ IsOk(again)
                /\ again.ok[1].signature = Content.signature
                /\ again.ok[1].payload = Content.payload

\* C13 happens: an HMAC-SHA1 signature over two different parameters, nonce and
\* timestamp set.
C13_Witness ==
    /\ SignedOk
    /\ IsSome(signer.nonce)
    /\ IsSome(signer.timestamp)
    /\ signer.signature_method = "HmacSha1"
    /\ Len(parameters) = 2
    /\ parameters[1] # parameters[2]

\* The pairs of the payload pl whose key is k, in order.
PairsOf(pl, k) == SelectSeq(pl, LAMBDA q : q[1] = k)

\* C14: the payload has no oauth_version pair when the version is cleared, the one pair
\* oauth_version=1.0 for the default version and the one pair with the percent-encoded
\* text for a custom version; the base string is built from the payload's pairs.
C14_VersionPair ==
    SignedOk =>
        LET pl == Content.payload
            vs == PairsOf(pl, OAUTH_PARAM_KEY_VERSION)
        IN  /\ signer.version.kind = "None" => vs = <<>>
            /\ signer.version.kind = "Default" =>
                  vs = << <<OAUTH_PARAM_KEY_VERSION, <<49, 46, 48>> >> >>
            /\ signer.version.kind = "Custom" =>
                  vs = << <<OAUTH_PARAM_KEY_VERSION, percent_encode(signer.version.s)>> >>
            /\ signer.signature_method = "HmacSha1" =>
                  Content.signature.mac[1].msg =
                      percent_encode(to_ascii_uppercase(signer.http_method))
                      \o <<38>> \o percent_encode(signer.endpoint)
                      \o <<38>> \o percent_encode(ParameterString(pl))

\* C14 happens: an HMAC-SHA1 signature of a session whose version was cleared.
C14_Witness ==
    /\ SignedOk
    /\ signer.signature_method = "HmacSha1"
    /\ signer.version = OAuthVersionNone
    /\ Len(parameters) = 1
    /\ PairsOf(Content.payload, OAUTH_PARAM_KEY_VERSION) = <<>>

\* C15: without user parameters sign succeeds and the payload is the protocol
\* parameters, each once: consumer key, signature method, timestamp, nonce, the version
\* iff one is set and the token (under oauth_token) iff the session is Bound.
C15_OnlyProtocolParameters ==
    (Signed /\ parameters = <<>>) =>
        /\ IsOk(result[1])
        /\ LET pl == Content.payload
               n(k) == Len(PairsOf(pl, k))
           IN  /\ n(OAUTH_PARAM_KEY_CONSUMER_KEY) = 1
               /\ n(OAUTH_PARAM_KEY_SIGNATURE_METHOD) = 1
               /\ n(OAUTH_PARAM_KEY_TIMESTAMP) = 1
               /\ n(OAUTH_PARAM_KEY_NONCE) = 1
               /\ n(OAUTH_PARAM_KEY_VERSION) = (IF signer.version.kind = "None" THEN 0 ELSE 1)
               /\ n(V1_KEY_TOKEN) = (IF IsSome(signer.token) THEN 1 ELSE 0)
               /\ Len(pl) = 4 + n(OAUTH_PARAM_KEY_VERSION) + n(V1_KEY_TOKEN)

\* C16: no step of a v1.rs session takes it from Bound to Unbound; a step that changes
\* the token is an attachment: it leaves the session Bound, changes nothing else of the
\* session and is no part of a sign call.
C16_BoundStaysBound ==
    [][ /\ IsSome(v1.oauth_token) => IsSome(v1'.oauth_token)
        /\ v1'.oauth_token # v1.oauth_token =>
              /\ IsSome(v1'.oauth_token)
              /\ v1' = [v1 EXCEPT !.oauth_token = v1'.oauth_token]
              /\ v1_adds' = v1_adds
              /\ v1_call = None
              /\ v1_call' = None ]_vars

\* C16 happens: a session with the attached token has had its parameters added and is
\* signing, with a token secret.
C16_Witness ==
    /\ IsSome(v1.oauth_token)
    /\ v1.oauth_token[1] \in AttachTokens
    /\ v1_adds = MaxParams
    /\ IsSome(v1_call)
    /\ IsSome(v1_call[1].token_secret)

\* C17: once a sign method has been invoked on a v1.rs session, the session takes no
\* setter, no add-parameter and no second sign: all that follows is the return of that
\* one call.
C17_ConsumedBySign ==
    [][ v1_signed =>
          /\ v1' = v1
          /\ v1_adds' = v1_adds
          /\ (v1_call' = v1_call \/ v1_call' = None) ]_vars

\* A call of fn has returned.
Returned(fn) == util.fn = fn /\ IsSome(util.ret)

\* Where the &-separated segments of q begin, and where the segment beginning at i ends.
SegmentStarts(q) == { i \in 1..(Len(q) + 1) : i = 1 \/ q[i - 1] = 38 }
SegmentEnd(q, i) ==
    CHOOSE j \in i..(Len(q) + 1) :
        /\ j = Len(q) + 1 \/ q[j] = 38
        /\ \A k \in i..(j - 1) : q[k] # 38
SegmentAt(q, i) == SubSeq(q, i, SegmentEnd(q, i) - 1)

\* The pairs the claim describes for the query q: one for every segment that is not empty
\* and has an '=', in the order of the segments; the key is the text before the first
\* '=', the value all the text after it.
PairsAsStated(q) ==
    LET has(i) == \E k \in 1..Len(SegmentAt(q, i)) : SegmentAt(q, i)[k] = 61
        starts == { i \in SegmentStarts(q) : has(i) }
        nth(n) == CHOOSE i \in starts : Cardinality({ j \in starts : j < i }) = n - 1
        pair(seg) ==
            LET e == CHOOSE k \in 1..Len(seg) : seg[k] = 61 /\ \A m \in 1..(k - 1) : seg[m] # 61
            IN  <<SubSeq(seg, 1, e - 1), SubSeq(seg, e + 1, Len(seg))>>
    IN  [n \in 1..Cardinality(starts) |-> pair(SegmentAt(q, nth(n)))]

\* q without the '?' characters it begins with.
WithoutLeadingMarks(q) ==
    LET n == Cardinality({ i \in 1..Len(q) : \A j \in 1..i : q[j] = 63 })
    IN  SubSeq(q, n + 1, Len(q))

\* C18 as stated: destructure_query returns the pairs of the segments of the query
\* string as given.
C18_PairsOfTheQuery ==
    Returned("destructure_query") => util.ret[1] = PairsAsStated(util.text)

\* C18 amended: destructure_query returns the pairs of the segments of the query string
\* without the '?' characters it begins with.
C18_PairsAfterLeadingMarks ==
    Returned("destructure_query") =>
        util.ret[1] = PairsAsStated(WithoutLeadingMarks(util.text))

\* C18 happens: a query "?k=v&" whose value has an '=' and whose last segment is empty.
C18_Witness ==
    /\ Returned("destructure_query")
    /\ Len(util.text) = MaxQuery
    /\ util.text[1] = 63
    /\ util.text[MaxQuery] = 38
    /\ Len(util.ret[1]) = 1
    /\ \E k \in 1..Len(util.ret[1][1][2]) : util.ret[1][1][2][k] = 61

\* C19: the endpoint is the URL's text up to the query, without query and fragment, and a
\* URL without a query gives no pairs and, having no fragment either, its whole text.
C19_EndpointOnly ==
    Returned("url_to_endpoint_and_queries") =>
        /\ util.ret[1][1] = util.url.base
        /\ IsNone(util.url.query) => util.ret[1][2] = <<>>
        /\ (IsNone(util.url.query) /\ IsNone(util.url.fragment)) =>
              util.ret[1][1] = UrlAsStr(util.url)

\* The unreserved bytes and the digits of an escape.
Unreserved == (65..90) \cup (97..122) \cup (48..57) \cup {45, 46, 95, 126}
UpperHex == <<48, 49, 50, 51, 52, 53, 54, 55, 56, 57, 65, 66, 67, 68, 69, 70>>

\* C20: the encoder's output is, byte by byte of the input and in order, the byte itself
\* if it is unreserved and otherwise '%' and the two upper-case hexadecimal digits of the
\* byte; every '%' of the output begins such an escape, the empty text gives the empty
\* text and a text of unreserved bytes gives itself.
C20_EncoderByteByByte ==
    Returned("percent_encode") =>
        LET s == util.text
            out == util.ret[1]
            at(i) == (i - 1) + 2 * Cardinality({ j \in 1..(i - 1) : s[j] \notin Unreserved })
        IN  /\ Len(out) = at(Len(s) + 1)
            /\ \A i \in 1..Len(s) :
                  IF s[i] \in Unreserved
                  THEN out[at(i) + 1] = s[i]
                  ELSE /\ out[at(i) + 1] = 37
                       /\ out[at(i) + 2] = UpperHex[(s[i] \div 16) + 1]
                       /\ out[at(i) + 3] = UpperHex[(s[i] % 16) + 1]
            /\ \A k \in 1..Len(out) :
                  out[k] = 37 =>
                      /\ k + 2 <= Len(out)
                      /\ \E d \in 1..16 : out[k + 1] = UpperHex[d]
                      /\ \E d \in 1..16 : out[k + 2] = UpperHex[d]
            /\ s = <<>> => out = <<>>
            /\ (\A i \in 1..Len(s) : s[i] \in Unreserved) => out = s

\* C20 happens: a text with an unreserved byte, a '%' and the byte 0xE3 has been encoded.
C20_Witness ==
    /\ Returned("percent_encode")
    /\ Len(util.text) = MaxText
    /\ util.text[1] \in Unreserved
    /\ util.text[2] = 37
    /\ util.text[3] = 227
    /\ Len(util.ret[1]) = 7

\* C21: the signature the two RFC 5849 tests compute (POST to
\* https://photos.example.net/initiate, consumer key dpf43f3p2l4k3l03, consumer secret
\* kd94hf93k423kf44, no token, nonce wIjqoS, timestamp 137131200, no version, HMAC-SHA1,
\* realm=photos and oauth_callback=http://printer.example.com/ready) is
\* 74KNZJeDHnMBp0EMJ9ZHt/XKycU=.
C21_RfcVector ==
    hmac.pc = "done" =>
        hmac.code = Some(
            <<55, 52, 75, 78, 90, 74, 101, 68, 72, 110, 77, 66, 112, 48, 69, 77, 74, 57, 90,
              72, 116, 47, 88, 75, 121, 99, 85, 61>>)

\* C21 happens: the HMAC-SHA1 that test_sign_rfc5849 asks for has run to its end, inner
\* and outer hash, and its code is base64-encoded.
C21_Witness ==
    /\ hmac.pc = "done"
    /\ hmac.via = "v1/signer.rs"
    /\ hmac.outer
    /\ IsSome(hmac.code)

\* The text s is in percent-encoded form: unreserved bytes and escapes '%' with two
\* upper-case hexadecimal digits, nothing else.
EncodedForm(s) ==
    \A i \in 1..Len(s) :
        \/ s[i] \in Unreserved
        \/ /\ s[i] = 37
           /\ i + 2 <= Len(s)
           /\ \E d \in 1..16 : s[i + 1] = UpperHex[d]
           /\ \E d \in 1..16 : s[i + 2] = UpperHex[d]

\* C22: every key and every value of the payload is in percent-encoded form, those that
\* come from the user parameters included.
C22_UserPairsEncoded ==
    SignedOk =>
        \A i \in 1..Len(Content.payload) :
            /\ EncodedForm(Content.payload[i][1])
            /\ EncodedForm(Content.payload[i][2])

\* The text part occurs in the text whole.
Contains(whole, part) ==
    \E at \in 0..(Len(whole) - Len(part)) : SubSeq(whole, at + 1, at + Len(part)) = part

\* C23: the pairs of the URL query a v1.rs sign call is given are among the pairs it signs
\* with the key and value they came with, and the signed base string holds each of them
\* as key=value percent-encoded once.
C23_QueryPairsAsIs ==
    IsSome(v1_call) =>
        LET call == v1_call[1]
            pairs == V1_params(v1, call.query, v1.oauth_token, call.now)
        IN  \A k \in DOMAIN call.query :
                /\ \E i \in 1..Len(pairs) : pairs[i] = <<k, call.query[k]>>
                /\ Contains(call.signature.mac[1].msg,
                            percent_encode(k \o <<61>> \o call.query[k]))

\* C23 happens: a sign call was given a query with a value that holds an escape already
\* ("%20=3" under the key "a/").
C23_Witness ==
    /\ IsSome(v1_call)
    /\ \E k \in DOMAIN v1_call[1].query :
          Contains(v1_call[1].query[k], <<37, 50, 48>>)

\* C24: a FileValue whose file is read successfully signs as ByteValue of the bytes of
\* the file: putting ByteValue(content) in its place gives the same content.
C24_FileAsBytes ==
    SignedOk =>
        \A i \in 1..Len(parameters) :
            parameters[i][2].kind = "FileValue" =>
                SignAgain([parameters EXCEPT ![i][2] = ByteValue(fs[parameters[i][2].s].ok[1])])
                    = result[1]

\* C25: a configuration step of a v1.rs session (a setter, an add-parameter, the
\* attaching of a token) changes one field of the session at most, and every parameter
\* added before the step is in the session after it with the value it had.
C25_OwnFieldOnly ==
    [][ /\ Cardinality({ f \in DOMAIN v1 : v1'[f] # v1[f] }) <= 1
        /\ \A k \in DOMAIN v1.encoded_parameters :
              /\ k \in DOMAIN v1'.encoded_parameters
              /\ v1'.encoded_parameters[k] = v1.encoded_parameters[k] ]_vars

\* C26: the signature a v1.rs sign call returns is computed with the method the session
\* announces in its oauth_signature_method pair: the PLAINTEXT signature (the signing key
\* itself) when the pair says PLAINTEXT, the HMAC-SHA1 signature when it says HMAC-SHA1.
C26_MethodAsAnnounced ==
    IsSome(v1_call) =>
        LET call == v1_call[1]
        IN  /\ v1.oauth_signature_method = OAUTH_VALUE_SIGMETHOD_PLAINTEXT =>
                  call.signature = PlainSignature(sign_key(call.consumer_secret, call.token_secret))
            /\ v1.oauth_signature_method = OAUTH_VALUE_SIGMETHOD_HMACSHA1 =>
                  /\ IsSome(call.signature.mac)
                  /\ call.signature.mac[1].key = sign_key(call.consumer_secret, call.token_secret)

====
